---- MODULE Spec2Model ----
(***************************************************************************)
(* A model of the hand-written shared_ptr<T> of src/mine_shared_prt.cc.    *)
(*                                                                         *)
(* Instances live in numbered slots.  Raw object pointers and control      *)
(* blocks are numbered from 1; 0 stands for nullptr.  Every access to the  *)
(* atomic counter, every delete, every allocation, and every read or write *)
(* of an instance's fields that the code separates from the next by such   *)
(* an access is one step of the executing thread, so that operations of    *)
(* different threads interleave as the code allows.  A control block       *)
(* number is an address: operator new may return that of a deleted one.    *)
(*                                                                         *)
(* The counter is a std::size_t.  Its value is kept as an integer          *)
(* representative modulo 2^64: a counter shown as -1 is SIZE_MAX.          *)
(*                                                                         *)
(* Specifications:                                                         *)
(*   Spec           all operations, several threads, usage contract kept   *)
(*   SpecProgress   as Spec, one thread scheduled fairly                   *)
(*   SpecSeq        all operations, one thread, calls instrumented         *)
(*   SpecAllocFail  as SpecSeq, and operator new may throw                 *)
(*   SpecScn        every thread copies, uses and drops one original       *)
(*   SpecRace       co-owners confined to their threads, with the          *)
(*                  happens-before order the atomic operations establish   *)
(*   SpecRacy       unsynchronised resets of one shared instance           *)
(***************************************************************************)
EXTENDS Integers, FiniteSets

\* Bounds of the model.
NThreads == 2
NInst == 3
NObj == 2
MaxDestroy == 2

Threads == 1..NThreads
Inst == 1..NInst
Obj == 1..NObj
Blk == 1..NObj

VARIABLES
    live,        \* live[i]: slot i holds a completely constructed shared_ptr
    _ptr,        \* _ptr[i]: the T* field of instance i (0 = nullptr)
    _ref_count,  \* _ref_count[i]: the std::atomic<size_t>* field (0 = nullptr)
    count,       \* count[b]: the value of the atomic counter of block b
    blk,         \* blk[b]: "fresh" (never allocated), "alloc" or "freed"
    allocs,      \* how many counters operator new has returned so far
    handed,      \* raw pointers that were passed to shared_ptr(T*) or reset
    destroyed,   \* destroyed[p]: how often default_delete ran on object p
    pc,          \* pc[t]: the position of thread t inside its operation
    op,          \* op[t]: the operation thread t executes, with its arguments
    last,        \* the operation that completed in the latest step, if any
    uaf,         \* kinds of access to freed memory that have happened
    scn,         \* per-thread position in the copy/use/drop test scenario
    probe,       \* TRUE when the calls are instrumented (see Calls and last)
    race         \* who owns which instance and what happens-before what

instVars == <<live, _ptr, _ref_count>>
heapVars == <<count, blk, allocs, handed, destroyed>>
vars == <<live, _ptr, _ref_count, count, blk, allocs, handed, destroyed, pc, op, last, uaf,
          scn, probe, race>>
envVars == <<scn, probe, race>>

-----------------------------------------------------------------------------
\* Pure helpers.

Min(S) == CHOOSE x \in S : \A y \in S : x <= y

\* new std::atomic<std::size_t>(1): the value a fresh counter starts with.
InitialCount_Zero == 1 - 1
InitialCount == 1

\* fetch_add(1): the value stored by the increment.
FetchAdd_NoIncrement(c) == c
FetchAdd(c) == c + 1

\* fetch_sub(1): the value stored by the decrement (modulo 2^64, see above).
FetchSub_NoDecrement(c) == c
FetchSub(c) == c - 1

\* fetch_sub(1, acq_rel) == 1: the test on the value before the decrement.
IsLastOwner_Never(old) == FALSE
IsLastOwner_Early(old) == old <= 2 /\ old >= 1
IsLastOwner(old) == old = 1

\* this != &other, negated: the identity test of both assignment operators.
IsSelf_Never(i, j) == FALSE
IsSelf(i, j) == i = j

\* What a load from a counter that was deleted may yield: the memory is no
\* longer the program's and may hold anything.  NInst + 1 stands for every
\* value that is above the number of instances.
FreedLoads == 0..(NInst + 1)

\* use_count(), lines 143-145: the values the call on instance i may return.
\* It is 0 for a null instance and else what the load of the counter
\* yields: its value, or anything when the counter was deleted.
use_count(i) ==
    IF _ref_count[i] = 0 THEN {0}
    ELSE IF blk[_ref_count[i]] = "alloc" THEN {count[_ref_count[i]]}
    ELSE FreedLoads

\* get(): the raw pointer.
get(i) == _ptr[i]

-----------------------------------------------------------------------------
\* Bookkeeping of the operations in flight.

NoOp == [kind |-> "none", self |-> 0, other |-> 0, p |-> 0, threw |-> FALSE,
         sPtr |-> 0, sRc |-> 0, sCnt |-> 0, oPtr |-> 0, oRc |-> 0, oCnt |-> 0,
         nBlk |-> 0, rel |-> 0, seen |-> 0, newCnt |-> 0]

NumBlocks == allocs

\* The call of `kind` on instance i with source o and raw pointer p.  An
\* instrumented call also records what the caller could observe just before
\* it: get() and use_count() of both instances and the number of control
\* blocks allocated so far; rel will be the control block its fetch_sub
\* was applied to.  There is one record for every pair of values that the
\* two use_count() calls may return.
Calls(kind, i, o, p) ==
    IF probe
    THEN {[kind |-> kind, self |-> i, other |-> o, p |-> p, threw |-> FALSE,
           sPtr |-> get(i), sRc |-> _ref_count[i], sCnt |-> s,
           oPtr |-> IF o = 0 THEN 0 ELSE get(o),
           oRc |-> IF o = 0 THEN 0 ELSE _ref_count[o],
           oCnt |-> c,
           nBlk |-> NumBlocks, rel |-> 0, seen |-> 0, newCnt |-> 0] :
             s \in use_count(i),
             c \in IF o = 0 THEN {0} ELSE use_count(o)}
    ELSE {[NoOp EXCEPT !.kind = kind, !.self = i, !.other = o, !.p = p]}

\* The call r when release() has loaded _ref_count for its null test: seen
\* is the pointer the executing thread holds from then on.
Tested(r) == [r EXCEPT !.seen = _ref_count[r.self]]

\* What `last` becomes when the call r returns.
Returned(r) == IF probe THEN r ELSE NoOp

Idle(t) == pc[t] = "idle"
AllIdle == \A t \in Threads : Idle(t)

\* Instance i is touched / written by an operation in flight.
Busy(i) == \E t \in Threads : ~Idle(t) /\ (op[t].self = i \/ op[t].other = i)
Mutating(i) ==
    \E t \in Threads :
        /\ ~Idle(t)
        /\ \/ op[t].self = i
           \/ op[t].other = i /\ op[t].kind \in {"move_ctor", "move_assign"}

\* The usage contract: an instance is written by one operation at a time and
\* is not read while it is written.
CanMutate(i) == ~Busy(i)
CanRead(i) == ~Mutating(i)

\* Storage for a new instance and the next raw pointer a caller owns: the
\* lowest unused one of each.
FreeSlots == {i \in Inst : ~live[i] /\ ~Busy(i)}
NewSlot == Min(FreeSlots)
FreshObjs == Obj \ handed
RawArgs == {0} \cup (IF FreshObjs = {} THEN {} ELSE {Min(FreshObjs)})

\* The addresses operator new may return for a counter: memory that was
\* never used (the lowest such address stands for all of them), or the
\* memory of a counter that was deleted.
NewBlks ==
    LET fresh == {b \in Blk : blk[b] = "fresh"}
    IN  {b \in Blk : blk[b] = "freed"} \cup (IF fresh = {} THEN {} ELSE {Min(fresh)})

\* Nothing is recorded about threads owning instances or about the order of
\* memory accesses (see the section on thread-confined instances).
NoRace == [owner |-> [i \in Inst |-> 0],
           eff |-> {},
           know |-> [t \in Threads |-> {}],
           sync |-> [b \in Blk |-> {}],
           ones |-> [b \in Blk |-> 0]]

-----------------------------------------------------------------------------
Init ==
    /\ live = [i \in Inst |-> FALSE]
    /\ _ptr = [i \in Inst |-> 0]
    /\ _ref_count = [i \in Inst |-> 0]
    /\ count = [b \in Blk |-> 0]
    /\ blk = [b \in Blk |-> "fresh"]
    /\ allocs = 0
    /\ handed = {}
    /\ destroyed = [p \in Obj |-> 0]
    /\ pc = [t \in Threads |-> "idle"]
    /\ op = [t \in Threads |-> NoOp]
    /\ last = NoOp
    /\ uaf = {}
    /\ scn = [t \in Threads |-> [ph |-> "start", slot |-> 0]]
    /\ probe = FALSE
    /\ race = NoRace

\* The same with every call instrumented.
InitProbe ==
    /\ live = [i \in Inst |-> FALSE]
    /\ _ptr = [i \in Inst |-> 0]
    /\ _ref_count = [i \in Inst |-> 0]
    /\ count = [b \in Blk |-> 0]
    /\ blk = [b \in Blk |-> "fresh"]
    /\ allocs = 0
    /\ handed = {}
    /\ destroyed = [p \in Obj |-> 0]
    /\ pc = [t \in Threads |-> "idle"]
    /\ op = [t \in Threads |-> NoOp]
    /\ last = NoOp
    /\ uaf = {}
    /\ scn = [t \in Threads |-> [ph |-> "start", slot |-> 0]]
    /\ probe = TRUE
    /\ race = NoRace

-----------------------------------------------------------------------------
\* release(), lines 41-50, in four steps: the null test, the fetch_sub, the
\* delete of the object, the delete of the counter.

\* release() without the null test of line 42.
release_NoNullTest(t, i) ==
    /\ pc' = [pc EXCEPT ![t] = "dec"]
    /\ UNCHANGED <<count, uaf>>

\* The first step of release() on instance i by thread t: `_ref_count &&`
\* on line 42.
release(t, i) ==
    /\ pc' = [pc EXCEPT ![t] = IF _ref_count[i] = 0 THEN "post" ELSE "dec"]
    /\ UNCHANGED <<count, uaf>>

\* The pointers a use of the field _ref_count of the instance thread t works
\* on may yield after the null test: the field as it is now, or the value
\* the thread loaded before.  They differ only when another thread wrote the
\* field in between, a data race.
RefCountRead(t) == {_ref_count[op[t].self], op[t].seen}

\* _ref_count->fetch_sub(1, acq_rel) == 1, line 42.  If the pointer is null
\* by now the call goes through a null pointer and the program is killed:
\* no thread takes another step.
\* A decrement of a counter that was already deleted reads memory that is no
\* longer the program's: any value may come back.
Decrement(t) ==
    /\ pc[t] = "dec"
    /\ \E b \in RefCountRead(t) :
         /\ IF b = 0
            THEN /\ pc' = [u \in Threads |-> "crashed"]
                 /\ uaf' = uaf \cup {"null"}
                 /\ UNCHANGED count
            ELSE IF blk[b] = "alloc"
            THEN /\ count' = [count EXCEPT ![b] = FetchSub(count[b])]
                 /\ pc' = [pc EXCEPT ![t] =
                              IF IsLastOwner(count[b]) THEN "del_obj" ELSE "post"]
                 /\ UNCHANGED uaf
            ELSE /\ \E old \in FreedLoads :
                       pc' = [pc EXCEPT ![t] =
                                 IF IsLastOwner(old) THEN "del_obj" ELSE "post"]
                 /\ uaf' = uaf \cup {"counter"}
                 /\ UNCHANGED count
         /\ op' = [op EXCEPT ![t].rel = IF probe THEN b ELSE 0,
                             ![t].seen = IF pc'[t] = "del_obj" THEN b ELSE 0]
    /\ last' = NoOp
    /\ UNCHANGED <<instVars, blk, allocs, handed, destroyed>>

\* std::default_delete<T>{}(_ptr), line 43.  _ptr is read now; deleting a
\* null pointer has no effect.
DeleteObject(t) ==
    /\ pc[t] = "del_obj"
    /\ LET p == _ptr[op[t].self] IN
         destroyed' = IF p = 0 THEN destroyed
                      ELSE [destroyed EXCEPT
                               ![p] = IF @ < MaxDestroy THEN @ + 1 ELSE @]
    /\ pc' = [pc EXCEPT ![t] = "del_blk"]
    /\ last' = NoOp
    /\ UNCHANGED <<instVars, count, blk, allocs, handed, op, uaf>>

\* A delete of the counter that waits until no other thread is inside an
\* operation.
DeleteCounter_WaitsForOthers(t) ==
    /\ pc[t] = "del_blk"
    /\ \A u \in Threads \ {t} : pc[u] = "idle"
    /\ blk' = [blk EXCEPT ![_ref_count[op[t].self]] = "freed"]
    /\ pc' = [pc EXCEPT ![t] = "post"]
    /\ op' = [op EXCEPT ![t].seen = 0]
    /\ last' = NoOp
    /\ UNCHANGED <<instVars, count, allocs, handed, destroyed, uaf>>

\* delete _ref_count, line 47; deleting a null pointer has no effect.
DeleteCounter(t) ==
    /\ pc[t] = "del_blk"
    /\ \E b \in RefCountRead(t) :
         IF b = 0 THEN UNCHANGED <<blk, uaf>>
         ELSE /\ blk' = [blk EXCEPT ![b] = "freed"]
              /\ uaf' = IF blk[b] = "freed" THEN uaf \cup {"double_free"} ELSE uaf
    /\ pc' = [pc EXCEPT ![t] = "post"]
    /\ op' = [op EXCEPT ![t].seen = 0]
    /\ last' = NoOp
    /\ UNCHANGED <<instVars, count, allocs, handed, destroyed>>

-----------------------------------------------------------------------------
\* Constructors, lines 54-69, 78-86 and 110-114.

\* shared_ptr(), lines 54-56.
DefaultCtor(t) ==
    /\ Idle(t) /\ FreeSlots # {}
    /\ LET i == NewSlot IN
         /\ live' = [live EXCEPT ![i] = TRUE]
         /\ _ptr' = [_ptr EXCEPT ![i] = 0]
         /\ _ref_count' = [_ref_count EXCEPT ![i] = 0]
         /\ \E r \in Calls("default_ctor", i, 0, 0) : last' = Returned(r)
    /\ UNCHANGED <<heapVars, pc, op, uaf>>

\* explicit shared_ptr(T* p), lines 62-69, when operator new succeeds.
CtorPtr(t, p) ==
    /\ Idle(t) /\ FreeSlots # {}
    /\ LET i == NewSlot IN
         /\ live' = [live EXCEPT ![i] = TRUE]
         /\ _ptr' = [_ptr EXCEPT ![i] = p]
         /\ \E r \in Calls("ctor_ptr", i, 0, p) : last' = Returned(r)
         /\ IF p # 0
            THEN \E b \in NewBlks :
                 /\ _ref_count' = [_ref_count EXCEPT ![i] = b]
                 /\ blk' = [blk EXCEPT ![b] = "alloc"]
                 /\ count' = [count EXCEPT ![b] = InitialCount]
                 /\ allocs' = allocs + 1
                 /\ handed' = handed \cup {p}
            ELSE /\ _ref_count' = [_ref_count EXCEPT ![i] = 0]
                 /\ UNCHANGED <<blk, count, allocs, handed>>
    /\ UNCHANGED <<destroyed, pc, op, uaf>>

\* explicit shared_ptr(T* p), line 65, when operator new throws
\* std::bad_alloc: the exception leaves the constructor, no instance exists,
\* and nothing in the constructor deletes p.
CtorPtrAllocFail(t, p) ==
    /\ Idle(t) /\ FreeSlots # {} /\ p # 0
    /\ handed' = handed \cup {p}
    /\ \E r \in Calls("ctor_ptr", NewSlot, 0, p) :
         last' = Returned([r EXCEPT !.threw = TRUE])
    /\ UNCHANGED <<instVars, count, blk, allocs, destroyed, pc, op, uaf>>

\* shared_ptr(const shared_ptr&), line 79: the member initialisers.
CopyCtor(t, o) ==
    /\ Idle(t) /\ FreeSlots # {} /\ live[o] /\ CanRead(o)
    /\ LET i == NewSlot IN
         /\ _ptr' = [_ptr EXCEPT ![i] = _ptr[o]]
         /\ _ref_count' = [_ref_count EXCEPT ![i] = _ref_count[o]]
         /\ \E r \in Calls("copy_ctor", i, o, 0) : op' = [op EXCEPT ![t] = r]
    /\ pc' = [pc EXCEPT ![t] = "inc"]
    /\ last' = NoOp
    /\ UNCHANGED <<live, heapVars, uaf>>

\* The fetch_add of the copy constructor and of copy assignment, lines 80-82
\* and 96-98; it ends both operations.
Increment(t) ==
    /\ pc[t] = "inc"
    /\ LET i == op[t].self
           b == _ref_count[op[t].self] IN
         /\ IF b # 0 /\ blk[b] = "alloc"
            THEN count' = [count EXCEPT ![b] = FetchAdd(count[b])]
            ELSE UNCHANGED count
         /\ uaf' = IF b # 0 /\ blk[b] # "alloc" THEN uaf \cup {"counter"} ELSE uaf
         /\ live' = [live EXCEPT ![i] = TRUE]
    /\ pc' = [pc EXCEPT ![t] = "idle"]
    /\ op' = [op EXCEPT ![t] = NoOp]
    /\ last' = Returned(op[t])
    /\ UNCHANGED <<_ptr, _ref_count, blk, allocs, handed, destroyed>>

\* shared_ptr(shared_ptr&&), line 111: the member initialisers.
MoveCtor(t, o) ==
    /\ Idle(t) /\ FreeSlots # {} /\ live[o] /\ CanMutate(o)
    /\ LET i == NewSlot IN
         /\ _ptr' = [_ptr EXCEPT ![i] = _ptr[o]]
         /\ _ref_count' = [_ref_count EXCEPT ![i] = _ref_count[o]]
         /\ \E r \in Calls("move_ctor", i, o, 0) : op' = [op EXCEPT ![t] = r]
    /\ pc' = [pc EXCEPT ![t] = "null_src"]
    /\ last' = NoOp
    /\ UNCHANGED <<live, heapVars, uaf>>

\* A move that forgets to null the source.
NullSource_KeepsSource(t) ==
    /\ pc[t] = "null_src"
    /\ live' = [live EXCEPT ![op[t].self] = TRUE]
    /\ pc' = [pc EXCEPT ![t] = "idle"]
    /\ op' = [op EXCEPT ![t] = NoOp]
    /\ last' = Returned(op[t])
    /\ UNCHANGED <<_ptr, _ref_count, heapVars, uaf>>

\* other._ptr = nullptr; other._ref_count = nullptr: lines 112-113 and
\* 123-124; it ends move construction and move assignment.
NullSource(t) ==
    /\ pc[t] = "null_src"
    /\ _ptr' = [_ptr EXCEPT ![op[t].other] = 0]
    /\ _ref_count' = [_ref_count EXCEPT ![op[t].other] = 0]
    /\ live' = [live EXCEPT ![op[t].self] = TRUE]
    /\ pc' = [pc EXCEPT ![t] = "idle"]
    /\ op' = [op EXCEPT ![t] = NoOp]
    /\ last' = Returned(op[t])
    /\ UNCHANGED <<heapVars, uaf>>

-----------------------------------------------------------------------------
\* Destructor, lines 72-74.

Dtor(t, i) ==
    /\ Idle(t) /\ live[i] /\ CanMutate(i)
    /\ \E r \in Calls("dtor", i, 0, 0) : op' = [op EXCEPT ![t] = Tested(r)]
    /\ release(t, i)
    /\ last' = NoOp
    /\ UNCHANGED <<instVars, blk, allocs, handed, destroyed>>

\* The end of the destructor: the instance's storage is gone.
DtorEnd(t) ==
    /\ pc[t] = "post" /\ op[t].kind = "dtor"
    /\ live' = [live EXCEPT ![op[t].self] = FALSE]
    /\ _ptr' = [_ptr EXCEPT ![op[t].self] = 0]
    /\ _ref_count' = [_ref_count EXCEPT ![op[t].self] = 0]
    /\ pc' = [pc EXCEPT ![t] = "idle"]
    /\ op' = [op EXCEPT ![t] = NoOp]
    /\ last' = Returned(op[t])
    /\ UNCHANGED <<heapVars, uaf>>

-----------------------------------------------------------------------------
\* Assignment operators, lines 90-104 and 117-127.

\* operator=(const shared_ptr&) on the instance itself: line 91 is false.
\* operator=(shared_ptr&&) on the instance itself: line 118 is false.
SelfAssign(t, i, kind) ==
    /\ Idle(t) /\ live[i] /\ CanMutate(i)
    /\ IsSelf(i, i)
    /\ \E r \in Calls(kind, i, i, 0) : last' = Returned(r)
    /\ UNCHANGED <<instVars, heapVars, pc, op, uaf>>

\* operator=(const shared_ptr&), lines 91-93: the identity test and the
\* first step of release().
CopyAssign(t, i, o) ==
    /\ Idle(t) /\ live[i] /\ live[o] /\ CanMutate(i)
    /\ i # o => CanRead(o)
    /\ ~IsSelf(i, o)
    /\ \E r \in Calls("copy_assign", i, o, 0) : op' = [op EXCEPT ![t] = Tested(r)]
    /\ release(t, i)
    /\ last' = NoOp
    /\ UNCHANGED <<instVars, blk, allocs, handed, destroyed>>

\* operator=(shared_ptr&&), lines 118-120.
MoveAssign(t, i, o) ==
    /\ Idle(t) /\ live[i] /\ live[o] /\ CanMutate(i) /\ CanMutate(o)
    /\ ~IsSelf(i, o)
    /\ \E r \in Calls("move_assign", i, o, 0) : op' = [op EXCEPT ![t] = Tested(r)]
    /\ release(t, i)
    /\ last' = NoOp
    /\ UNCHANGED <<instVars, blk, allocs, handed, destroyed>>

\* _ptr = other._ptr; _ref_count = other._ref_count: lines 94-95 and 121-122.
Adopt(t) ==
    /\ pc[t] = "post" /\ op[t].kind \in {"copy_assign", "move_assign"}
    /\ _ptr' = [_ptr EXCEPT ![op[t].self] = _ptr[op[t].other]]
    /\ _ref_count' = [_ref_count EXCEPT ![op[t].self] = _ref_count[op[t].other]]
    /\ pc' = [pc EXCEPT ![t] =
                 IF op[t].kind = "copy_assign" THEN "inc" ELSE "null_src"]
    /\ last' = NoOp
    /\ UNCHANGED <<live, heapVars, op, uaf>>

-----------------------------------------------------------------------------
\* reset(T* p = nullptr), lines 153-157.

\* Line 154: the call and the first step of release().
reset(t, i, p) ==
    /\ Idle(t) /\ live[i]
    /\ \E r \in Calls("reset", i, 0, p) : op' = [op EXCEPT ![t] = Tested(r)]
    /\ handed' = IF p # 0 THEN handed \cup {p} ELSE handed
    /\ release(t, i)
    /\ last' = NoOp
    /\ UNCHANGED <<instVars, blk, allocs, destroyed>>

\* reset called as the usage contract demands: nothing else works on i.
Reset(t, i, p) == CanMutate(i) /\ reset(t, i, p)

\* _ptr = p, line 155.
ResetStore(t) ==
    /\ pc[t] = "post" /\ op[t].kind = "reset"
    /\ _ptr' = [_ptr EXCEPT ![op[t].self] = op[t].p]
    /\ pc' = [pc EXCEPT ![t] = IF op[t].p # 0 THEN "new_cnt" ELSE "store_cnt"]
    /\ last' = NoOp
    /\ UNCHANGED <<live, _ref_count, heapVars, op, uaf>>

\* new std::atomic<std::size_t>(1) on line 156, when operator new succeeds:
\* the counter exists and holds 1; the thread holds its address, the field
\* _ref_count is not written yet.
ResetNew(t) ==
    /\ pc[t] = "new_cnt"
    /\ \E b \in NewBlks :
         /\ blk' = [blk EXCEPT ![b] = "alloc"]
         /\ count' = [count EXCEPT ![b] = InitialCount]
         /\ op' = [op EXCEPT ![t].newCnt = b]
    /\ allocs' = allocs + 1
    /\ pc' = [pc EXCEPT ![t] = "store_cnt"]
    /\ last' = NoOp
    /\ UNCHANGED <<instVars, handed, destroyed, uaf>>

\* The store into _ref_count on line 156: the address of the new counter, or
\* nullptr when p is null.
ResetAdopt(t) ==
    /\ pc[t] = "store_cnt"
    /\ _ref_count' = [_ref_count EXCEPT ![op[t].self] = op[t].newCnt]
    /\ pc' = [pc EXCEPT ![t] = "idle"]
    /\ op' = [op EXCEPT ![t] = NoOp]
    /\ last' = Returned(op[t])
    /\ UNCHANGED <<live, _ptr, heapVars, uaf>>

\* Line 156 when operator new throws std::bad_alloc: _ptr was overwritten on
\* line 155, _ref_count keeps the pointer release() was called on, and
\* nothing deletes p.
ResetAllocFail(t) ==
    /\ pc[t] = "new_cnt"
    /\ pc' = [pc EXCEPT ![t] = "idle"]
    /\ op' = [op EXCEPT ![t] = NoOp]
    /\ last' = Returned([op[t] EXCEPT !.threw = TRUE])
    /\ UNCHANGED <<instVars, heapVars, uaf>>

-----------------------------------------------------------------------------
\* operator* and operator->, lines 132-139, on a non-null instance: the
\* caller reads or writes the object _ptr points to.
Deref(t, i) ==
    /\ Idle(t) /\ live[i] /\ CanRead(i)
    /\ _ptr[i] # 0
    /\ uaf' = IF destroyed[_ptr[i]] > 0 THEN uaf \cup {"object"} ELSE uaf
    /\ last' = NoOp
    /\ UNCHANGED <<instVars, heapVars, pc, op>>

-----------------------------------------------------------------------------
\* A call by thread t: the operation starts, and those that touch no counter
\* return in the same step.
Begin(t) ==
    \/ DefaultCtor(t) /\ UNCHANGED envVars
    \/ \E p \in RawArgs : CtorPtr(t, p) /\ UNCHANGED envVars
    \/ \E o \in Inst : CopyCtor(t, o) /\ UNCHANGED envVars
    \/ \E o \in Inst : MoveCtor(t, o) /\ UNCHANGED envVars
    \/ \E i \in Inst : Dtor(t, i) /\ UNCHANGED envVars
    \/ \E i \in Inst : SelfAssign(t, i, "copy_assign") /\ UNCHANGED envVars
    \/ \E i \in Inst : SelfAssign(t, i, "move_assign") /\ UNCHANGED envVars
    \/ \E i, o \in Inst : CopyAssign(t, i, o) /\ UNCHANGED envVars
    \/ \E i, o \in Inst : MoveAssign(t, i, o) /\ UNCHANGED envVars
    \/ \E i \in Inst : \E p \in RawArgs : Reset(t, i, p) /\ UNCHANGED envVars
    \/ \E i \in Inst : Deref(t, i) /\ UNCHANGED envVars

\* The next step of the operation thread t is in.
Continue(t) ==
    \/ Decrement(t) /\ UNCHANGED envVars
    \/ DeleteObject(t) /\ UNCHANGED envVars
    \/ DeleteCounter(t) /\ UNCHANGED envVars
    \/ DtorEnd(t) /\ UNCHANGED envVars
    \/ Adopt(t) /\ UNCHANGED envVars
    \/ ResetStore(t) /\ UNCHANGED envVars
    \/ ResetNew(t) /\ UNCHANGED envVars
    \/ ResetAdopt(t) /\ UNCHANGED envVars
    \/ Increment(t) /\ UNCHANGED envVars
    \/ NullSource(t) /\ UNCHANGED envVars

\* One step of thread t: a call, or the next step of the operation t is in.
Step(t) == Begin(t) \/ Continue(t)

\* operator new throws std::bad_alloc.
AllocFail(t) ==
    \/ \E p \in RawArgs : CtorPtrAllocFail(t, p) /\ UNCHANGED envVars
    \/ ResetAllocFail(t) /\ UNCHANGED envVars

\* Any number of threads; operator new never fails.
Next == \E t \in Threads : Step(t)
Spec == Init /\ [][Next]_vars

\* A single thread: no two operations overlap.
NextSeq == Step(1)
SpecSeq == InitProbe /\ [][NextSeq]_vars

\* A single thread, and operator new may throw std::bad_alloc.
NextAllocFail == Step(1) \/ AllocFail(1)
SpecAllocFail == InitProbe /\ [][NextAllocFail]_vars

\* Any number of threads, with thread 1 never stopped for good in the middle
\* of an operation.  Nothing is assumed about the other threads: each of
\* them may stop anywhere and for ever, also inside an operation.
SpecProgress == Init /\ [][Next]_vars /\ WF_vars(Continue(1))

-----------------------------------------------------------------------------
\* The test scenario of the specification: one instance (slot 1) solely owns
\* object 1; every thread copies it, uses its copy and lets the copy go out
\* of scope; after all threads are joined the original is dropped.

Orig == 1

InitScn ==
    /\ live = [i \in Inst |-> i = Orig]
    /\ _ptr = [i \in Inst |-> IF i = Orig THEN 1 ELSE 0]
    /\ _ref_count = [i \in Inst |-> IF i = Orig THEN 1 ELSE 0]
    /\ count = [b \in Blk |-> IF b = 1 THEN InitialCount ELSE 0]
    /\ blk = [b \in Blk |-> IF b = 1 THEN "alloc" ELSE "fresh"]
    /\ allocs = 1
    /\ handed = {1}
    /\ destroyed = [p \in Obj |-> 0]
    /\ pc = [t \in Threads |-> "idle"]
    /\ op = [t \in Threads |-> NoOp]
    /\ last = NoOp
    /\ uaf = {}
    /\ scn = [t \in Threads |-> [ph |-> "start", slot |-> 0]]
    /\ probe = TRUE
    /\ race = NoRace

Joined == \A t \in Threads : scn[t].ph = "drop" /\ Idle(t)

ScnCopy(t) ==
    /\ scn[t].ph = "start"
    /\ CopyCtor(t, Orig)
    /\ scn' = [scn EXCEPT ![t] = [ph |-> "copy", slot |-> NewSlot]]
    /\ UNCHANGED <<probe, race>>

ScnUse(t) ==
    /\ scn[t].ph = "copy"
    /\ Deref(t, scn[t].slot)
    /\ scn' = [scn EXCEPT ![t].ph = "use"]
    /\ UNCHANGED <<probe, race>>

ScnDrop(t) ==
    /\ scn[t].ph = "use"
    /\ Dtor(t, scn[t].slot)
    /\ scn' = [scn EXCEPT ![t].ph = "drop"]
    /\ UNCHANGED <<probe, race>>

ScnDropOrig(t) ==
    /\ Joined
    /\ Dtor(t, Orig)
    /\ scn' = [scn EXCEPT ![t].ph = "final"]
    /\ UNCHANGED <<probe, race>>

NextScn ==
    \E t \in Threads :
        \/ ScnCopy(t)
        \/ ScnUse(t)
        \/ ScnDrop(t)
        \/ ScnDropOrig(t)
        \/ Increment(t) /\ UNCHANGED envVars
        \/ Decrement(t) /\ UNCHANGED envVars
        \/ DeleteObject(t) /\ UNCHANGED envVars
        \/ DeleteCounter(t) /\ UNCHANGED envVars
        \/ DtorEnd(t) /\ UNCHANGED envVars
SpecScn == InitScn /\ [][NextScn]_vars

-----------------------------------------------------------------------------
\* Thread-confined instances: every thread starts with one instance of its
\* own, all of them owning object 1 through control block 1, and works on
\* its own instances only: it reads the object through them, copies them,
\* copy-assigns one to another and destroys them.  The threads never
\* synchronise with each other except through the atomic counter.
\*
\* race.owner[i] is the thread instance i belongs to.  race.eff holds the
\* threads that accessed object 1; the entry of thread u stands for the
\* latest access by u.  race.know[t] holds the accesses that happen-before
\* the next step of t, race.sync[b] the accesses published by the release
\* sequence that the latest operation on counter b belongs to, and
\* race.ones[b] how many fetch_sub on b returned 1.

\* The memory order arguments of fetch_sub (line 42) and fetch_add (line 81).
FetchSubOrder_Relaxed == "relaxed"
FetchSubOrder == "acq_rel"
FetchAddOrder == "relaxed"

Acquires(order) == order \in {"acquire", "acq_rel", "seq_cst"}
Releases(order) == order \in {"release", "acq_rel", "seq_cst"}

\* An atomic read-modify-write by thread t on counter b.  It reads the value
\* of the previous operation and continues its release sequence whatever
\* its order is; an acquire synchronises with what that sequence published,
\* a release publishes what happens-before it.
Rmw(order, t, b) ==
    LET k == IF Acquires(order) THEN race.know[t] \cup race.sync[b]
                                ELSE race.know[t]
        s == IF Releases(order) THEN race.sync[b] \cup k ELSE race.sync[b]
    IN  [race EXCEPT !.know[t] = k, !.sync[b] = s]

\* Thread t accesses the object: nobody else knows of this access yet.
Effect(t) ==
    [race EXCEPT !.eff = @ \cup {t},
                 !.know = [u \in Threads |->
                              IF u = t THEN @[u] \cup {t} ELSE @[u] \ {t}],
                 !.sync = [b \in Blk |-> @[b] \ {t}]]

\* The record after the fetch_sub of release() by t on instance i.
Released1(t, i) ==
    LET b == _ref_count[i] IN
    [Rmw(FetchSubOrder, t, b) EXCEPT
        !.ones[b] = IF pc'[t] = "del_obj" /\ @ < MaxDestroy THEN @ + 1 ELSE @]

Mine(t) == {i \in Inst : race.owner[i] = t}
Give(t, i) == [race EXCEPT !.owner[i] = t]

InitRace ==
    /\ live = [i \in Inst |-> i \in Threads]
    /\ _ptr = [i \in Inst |-> IF i \in Threads THEN 1 ELSE 0]
    /\ _ref_count = [i \in Inst |-> IF i \in Threads THEN 1 ELSE 0]
    /\ count = [b \in Blk |-> IF b = 1 THEN NThreads ELSE 0]
    /\ blk = [b \in Blk |-> IF b = 1 THEN "alloc" ELSE "fresh"]
    /\ allocs = 1
    /\ handed = {1}
    /\ destroyed = [p \in Obj |-> 0]
    /\ pc = [t \in Threads |-> "idle"]
    /\ op = [t \in Threads |-> NoOp]
    /\ last = NoOp
    /\ uaf = {}
    /\ scn = [t \in Threads |-> [ph |-> "start", slot |-> 0]]
    /\ probe = FALSE
    /\ race = [NoRace EXCEPT !.owner = [i \in Inst |-> IF i \in Threads THEN i ELSE 0]]

\* A call by thread t.
RaceCall(t) ==
    \/ \E i \in Mine(t) :
          Deref(t, i) /\ race' = Effect(t) /\ UNCHANGED <<scn, probe>>
    \/ \E o \in Mine(t) :
          CopyCtor(t, o) /\ race' = Give(t, NewSlot) /\ UNCHANGED <<scn, probe>>
    \/ \E i \in Mine(t) :
          /\ Dtor(t, i)
          /\ race' = [race EXCEPT !.owner[i] = 0]
          /\ UNCHANGED <<scn, probe>>
    \/ \E i, o \in Mine(t) :
          CopyAssign(t, i, o) /\ UNCHANGED envVars

\* The next step of the operation thread t is in.
RaceContinue(t) ==
    \/ /\ Increment(t)
       /\ race' = IF _ref_count[op[t].self] = 0 THEN race
                  ELSE Rmw(FetchAddOrder, t, _ref_count[op[t].self])
       /\ UNCHANGED <<scn, probe>>
    \/ /\ Decrement(t)
       /\ race' = Released1(t, op[t].self)
       /\ UNCHANGED <<scn, probe>>
    \/ DeleteObject(t) /\ UNCHANGED envVars
    \/ DeleteCounter(t) /\ UNCHANGED envVars
    \/ DtorEnd(t) /\ UNCHANGED envVars
    \/ Adopt(t) /\ UNCHANGED envVars

RaceStep(t) == RaceCall(t) \/ RaceContinue(t)

NextRace == \E t \in Threads : RaceStep(t)
SpecRace == InitRace /\ [][NextRace]_vars

-----------------------------------------------------------------------------
\* Misuse: instance 1 is shared by all threads, each of which calls reset on
\* it once, with no synchronisation between them.  It owns object 1, alone
\* or together with another instance that is left alone.

Shared == 1
CoOwner == 2

InitRacy ==
    \E owners \in {{Shared}, {Shared, CoOwner}} :
        /\ live = [i \in Inst |-> i \in owners]
        /\ _ptr = [i \in Inst |-> IF i \in owners THEN 1 ELSE 0]
        /\ _ref_count = [i \in Inst |-> IF i \in owners THEN 1 ELSE 0]
        /\ count = [b \in Blk |-> IF b = 1 THEN Cardinality(owners) ELSE 0]
        /\ blk = [b \in Blk |-> IF b = 1 THEN "alloc" ELSE "fresh"]
        /\ allocs = 1
        /\ handed = {1}
        /\ destroyed = [p \in Obj |-> 0]
        /\ pc = [t \in Threads |-> "idle"]
        /\ op = [t \in Threads |-> NoOp]
        /\ last = NoOp
        /\ uaf = {}
        /\ scn = [t \in Threads |-> [ph |-> "start", slot |-> 0]]
        /\ probe = TRUE
        /\ race = NoRace

RacyStep(t) ==
    \/ \E p \in RawArgs :
          /\ scn[t].ph = "start"
          /\ reset(t, Shared, p)
          /\ scn' = [scn EXCEPT ![t].ph = "reset"]
          /\ UNCHANGED <<probe, race>>
    \/ Decrement(t) /\ UNCHANGED envVars
    \/ DeleteObject(t) /\ UNCHANGED envVars
    \/ DeleteCounter(t) /\ UNCHANGED envVars
    \/ ResetStore(t) /\ UNCHANGED envVars
    \/ ResetNew(t) /\ UNCHANGED envVars
    \/ ResetAdopt(t) /\ UNCHANGED envVars

NextRacy == \E t \in Threads : RacyStep(t)
SpecRacy == InitRacy /\ [][NextRacy]_vars

-----------------------------------------------------------------------------
\* Properties.

\* Instance i has given up its reference (release() is past the fetch_sub,
\* or found the instance null) and its control-block field is not
\* overwritten yet.
Released(i) ==
    \E t \in Threads :
        /\ pc[t] \in {"del_obj", "del_blk", "post", "new_cnt", "store_cnt"}
        /\ op[t].self = i

\* Instance i holds a reference to a control block.
Owns(i) == live[i] /\ _ref_count[i] # 0 /\ ~Released(i)

\* The instances, complete or under construction, that reference block b.
Holders(b) == {i \in Inst : _ref_count[i] = b /\ ~Released(i)}

\* C1: under any interleaving of the operations of several threads on
\* distinct instances, no object is destroyed twice, no object or control
\* block is destroyed while an instance still owns a reference to it, and no
\* access is made to a destroyed object or a freed counter.
C1_OwnershipSafety ==
    /\ \A p \in Obj : destroyed[p] <= 1
    /\ \A i \in Inst :
          Owns(i) => /\ blk[_ref_count[i]] = "alloc"
                     /\ _ptr[i] # 0
                     /\ destroyed[_ptr[i]] = 0
    /\ uaf = {}

\* Two threads operate on the same control block at once: one has just
\* decremented it in a destructor while the other, in the middle of a copy,
\* has not yet incremented it.
C1_Witness ==
    \E t, u \in Threads :
        /\ t # u
        /\ pc[t] = "post" /\ op[t].kind = "dtor"
        /\ pc[u] = "inc"
        /\ _ref_count[op[t].self] # 0
        /\ _ref_count[op[t].self] = _ref_count[op[u].self]

\* C2: an allocated control block (a handed-over, undestroyed object) that
\* no instance references any more is being destroyed by an operation in
\* flight; and when all instances are gone every object that was handed
\* over has been destroyed exactly once and every control block is freed.
C2_NoLeak ==
    /\ \A b \in Blk :
          (blk[b] = "alloc" /\ Holders(b) = {}) =>
              \E t \in Threads :
                  \/ pc[t] \in {"del_obj", "del_blk"} /\ _ref_count[op[t].self] = b
                  \/ pc[t] = "store_cnt" /\ op[t].newCnt = b
    /\ \A p \in handed :
          (destroyed[p] = 0 /\ \A i \in Inst : _ptr[i] = p => Released(i)) =>
              \E t \in Threads :
                  \/ pc[t] = "del_obj" /\ _ptr[op[t].self] = p
                  \/ ~Idle(t) /\ op[t].kind = "reset" /\ op[t].p = p
    /\ (AllIdle /\ \A i \in Inst : ~live[i]) =>
          /\ \A p \in Obj : destroyed[p] = IF p \in handed THEN 1 ELSE 0
          /\ \A b \in Blk : blk[b] # "alloc"

\* Every object was handed over, every instance is gone, and every object
\* has been destroyed once.
C2_Witness ==
    /\ AllIdle /\ \A i \in Inst : ~live[i]
    /\ handed = Obj
    /\ \A p \in Obj : destroyed[p] = 1

\* C3: whenever no operation is in flight, the counter of every allocated
\* control block equals the number of live instances that reference it.
C3_CounterInvariant ==
    AllIdle =>
        \A b \in Blk :
            blk[b] = "alloc" =>
                count[b] = Cardinality({i \in Inst : live[i] /\ _ref_count[i] = b})

\* No operation is in flight and some control block is shared by at least
\* two instances while another instance does not reference it.
C3_Witness ==
    /\ AllIdle
    /\ \E b \in Blk : blk[b] = "alloc" /\ count[b] >= 2
    /\ \E i \in Inst : live[i] /\ _ref_count[i] = 0

\* C4: in the scenario, once all threads are joined the original reports
\* use_count() = 1 and the object is not destroyed; the object is not
\* destroyed before the original is dropped, and is destroyed exactly once
\* when the original has been dropped.
C4_Scenario ==
    /\ Joined => live[Orig] /\ use_count(Orig) = {1} /\ destroyed[1] = 0
    /\ (\A t \in Threads : scn[t].ph # "final") => destroyed[1] = 0
    /\ \A t \in Threads :
          (scn[t].ph = "final" /\ Idle(t)) => destroyed[1] = 1 /\ ~live[Orig]
    /\ uaf = {}

\* All threads copied, used and dropped, and then the original was dropped.
C4_Witness ==
    \E t \in Threads :
        /\ scn[t].ph = "final" /\ Idle(t)
        /\ \A u \in Threads \ {t} : scn[u].ph = "drop"

-----------------------------------------------------------------------------
\* Properties of single operations.  `last` is the operation that completed
\* in the latest step together with what get() and use_count() returned just
\* before it was called; under SpecSeq nothing else ran in between.

LastIsCopy ==
    last.kind \in {"copy_ctor", "copy_assign"} /\ last.self # last.other
LastIsMove ==
    last.kind \in {"move_ctor", "move_assign"} /\ last.self # last.other
LastIsSelfAssign ==
    last.kind \in {"copy_assign", "move_assign"} /\ last.self = last.other

\* C5 as stated: after any copy from a to another instance b, both report
\* a's use_count() before the copy plus one, and the same get().
C5_Original ==
    LastIsCopy =>
        /\ use_count(last.other) = use_count(last.self)
        /\ use_count(last.self) = {last.oCnt + 1}
        /\ get(last.other) = get(last.self)

\* C5 as amended: after a copy from a to another instance b both report the
\* same use_count() and get(); the count is a's previous count plus one when
\* a is not null and b did not already reference a's control block, a's
\* previous count when b already referenced it, and 0 when a is null.
C5_Copy ==
    LastIsCopy =>
        /\ use_count(last.other) = use_count(last.self)
        /\ get(last.other) = get(last.self)
        /\ get(last.other) = last.oPtr
        /\ use_count(last.self) =
              {IF last.oRc = 0 THEN 0
               ELSE IF last.sRc = last.oRc THEN last.oCnt
               ELSE last.oCnt + 1}

\* A copy assignment from an owning a to a b that owned another object has
\* completed.
C5_Witness ==
    /\ last.kind = "copy_assign" /\ last.self # last.other
    /\ last.oRc # 0 /\ last.sRc # 0 /\ last.sRc # last.oRc
    /\ use_count(last.self) = {last.oCnt + 1}

\* C6 as stated: after any move from a to another instance b, b has a's
\* previous get(), a is null, and the counter of the control block a
\* referenced is what it was.
C6_Original ==
    LastIsMove =>
        /\ get(last.self) = last.oPtr
        /\ get(last.other) = 0
        /\ use_count(last.other) = {0}
        /\ last.oRc # 0 => count[last.oRc] = last.oCnt

\* C6 as amended: the counter of the control block a referenced is what it
\* was, unless b already referenced that same control block: then it is one
\* less, because move assignment released b's own reference.
C6_Move ==
    LastIsMove =>
        /\ get(last.self) = last.oPtr
        /\ _ref_count[last.self] = last.oRc
        /\ get(last.other) = 0
        /\ use_count(last.other) = {0}
        /\ last.oRc # 0 =>
              count[last.oRc] =
                  IF last.sRc = last.oRc THEN last.oCnt - 1 ELSE last.oCnt

\* A move assignment from an owning a to a b that owned another object has
\* completed.
C6_Witness ==
    /\ last.kind = "move_assign" /\ last.self # last.other
    /\ last.oRc # 0 /\ last.sRc # 0 /\ last.sRc # last.oRc
    /\ get(last.self) = last.oPtr /\ get(last.other) = 0

\* C7: a copy or move assignment of an instance to itself leaves its get(),
\* its use_count() and the counter as they were, destroys no object and
\* frees no control block.
C7_SelfAssignment ==
    LastIsSelfAssign =>
        /\ get(last.self) = last.sPtr
        /\ _ref_count[last.self] = last.sRc
        /\ use_count(last.self) = {last.sCnt}
        /\ last.sRc # 0 => blk[last.sRc] = "alloc" /\ destroyed[last.sPtr] = 0
        /\ NumBlocks = last.nBlk
        /\ uaf = {}

\* A sole owner was move-assigned to itself.
C7_Witness ==
    /\ last.kind = "move_assign" /\ last.self = last.other
    /\ last.sCnt = 1 /\ last.sPtr # 0
    /\ live[last.self]

\* C8: reset(p2) of a sole owner destroys the old object and frees its
\* control block before p2 is stored; reset of a co-owner only takes one off
\* the shared counter; afterwards the instance is as if constructed from p2.
C8_Reset ==
    /\ \A t \in Threads :
          (~Idle(t) /\ op[t].kind = "reset") =>
              /\ (pc[t] \notin {"new_cnt", "store_cnt"} /\ op[t].p # 0) =>
                    \A i \in Inst : _ptr[i] # op[t].p
              /\ pc[t] \notin {"new_cnt", "store_cnt"} =>
                    _ptr[op[t].self] = op[t].sPtr
              /\ _ref_count[op[t].self] = op[t].sRc
              /\ (pc[t] \in {"post", "new_cnt"} /\ op[t].sCnt = 1) =>
                    /\ destroyed[op[t].sPtr] = 1
                    /\ blk[op[t].sRc] = "freed"
              /\ (pc[t] = "store_cnt" /\ op[t].sCnt = 1) =>
                    /\ destroyed[op[t].sPtr] = 1
                    /\ blk[op[t].sRc] = "freed" \/ op[t].newCnt = op[t].sRc
              /\ (pc[t] \in {"post", "new_cnt", "store_cnt"} /\ op[t].sCnt > 1) =>
                    /\ destroyed[op[t].sPtr] = 0
                    /\ count[op[t].sRc] = op[t].sCnt - 1
              /\ pc[t] = "store_cnt" =>
                    /\ NumBlocks = op[t].nBlk + (IF op[t].p # 0 THEN 1 ELSE 0)
                    /\ op[t].p # 0 => count[op[t].newCnt] = 1
    /\ (last.kind = "reset" /\ ~last.threw) =>
          /\ get(last.self) = last.p
          /\ IF last.p # 0
             THEN /\ _ref_count[last.self] # 0
                  /\ blk[_ref_count[last.self]] = "alloc"
                  /\ Holders(_ref_count[last.self]) = {last.self}
                  /\ NumBlocks = last.nBlk + 1
                  /\ use_count(last.self) = {1}
             ELSE /\ _ref_count[last.self] = 0
                  /\ NumBlocks = last.nBlk
                  /\ use_count(last.self) = {0}
          /\ last.sCnt = 1 =>
                /\ destroyed[last.sPtr] = 1
                /\ blk[last.sRc] = "freed" \/ _ref_count[last.self] = last.sRc
          /\ last.sCnt > 1 =>
                /\ destroyed[last.sPtr] = 0
                /\ blk[last.sRc] = "alloc"
                /\ count[last.sRc] = last.sCnt - 1

\* A sole owner of one object was reset to another object.
C8_Witness ==
    /\ last.kind = "reset" /\ last.sCnt = 1 /\ last.p # 0
    /\ destroyed[last.sPtr] = 1 /\ use_count(last.self) = {1}

\* C9: the default constructor and the constructor from a null pointer give
\* the null instance and allocate nothing; the constructor from a non-null p
\* gives get() = p and a newly allocated counter of 1.
C9_Construction ==
    /\ (last.kind = "default_ctor" \/ (last.kind = "ctor_ptr" /\ last.p = 0)) =>
          /\ live[last.self]
          /\ get(last.self) = 0
          /\ _ref_count[last.self] = 0
          /\ use_count(last.self) = {0}
          /\ NumBlocks = last.nBlk
    /\ (last.kind = "ctor_ptr" /\ last.p # 0 /\ ~last.threw) =>
          /\ live[last.self]
          /\ get(last.self) = last.p
          /\ _ref_count[last.self] # 0
          /\ blk[_ref_count[last.self]] = "alloc"
          /\ Holders(_ref_count[last.self]) = {last.self}
          /\ NumBlocks = last.nBlk + 1
          /\ count[_ref_count[last.self]] = 1
          /\ use_count(last.self) = {1}

\* An instance was constructed from a non-null pointer while another control
\* block was already allocated.
C9_Witness ==
    /\ last.kind = "ctor_ptr" /\ last.p # 0
    /\ last.nBlk >= 1
    /\ use_count(last.self) = {1}

\* C10: when the allocation of the control block fails in shared_ptr(T* p)
\* or reset(p), the object at p has been destroyed when the error reaches
\* the caller.
C10_NoLeakOnAllocFailure ==
    (last.threw /\ last.p # 0) => destroyed[last.p] = 1

\* C11: when the allocation of the control block fails in reset(p) on an
\* instance that owned a resource, the instance does not keep referencing
\* the control block it has just released, so that no later operation on it
\* decrements that counter again, touches a freed counter or destroys the
\* old object a second time.
C11_AllOrNothing ==
    /\ (last.kind = "reset" /\ last.threw /\ last.sRc # 0) =>
          _ref_count[last.self] # last.sRc
    /\ \A p \in Obj : destroyed[p] <= 1
    /\ uaf = {}

\* C12: every completely constructed instance that no operation is working
\* on has its two fields null together or non-null together, also after a
\* reset or a construction that ended with an allocation error.
C12_Pairing ==
    \A i \in Inst :
        (live[i] /\ ~Busy(i)) => (_ptr[i] = 0 <=> _ref_count[i] = 0)

\* The threads that are destroying what control block b manages.
Destroyers(b) ==
    {t \in Threads : pc[t] \in {"del_obj", "del_blk"} /\ _ref_count[op[t].self] = b}

\* C13: of the releases of the instances that share a control block, at most
\* one observes the value 1, and exactly one once all of them are done; the
\* thread that did destroys the object and then frees the control block,
\* and nobody accesses the counter after it is freed.
C13_SingleDestroyer ==
    /\ \A b \in Blk :
          /\ race.ones[b] <= 1
          /\ Cardinality(Destroyers(b)) <= 1
          /\ Destroyers(b) # {} =>
                race.ones[b] = 1 /\ blk[b] = "alloc" /\ count[b] = 0
          /\ (blk[b] # "fresh" /\ \A i \in Inst : _ref_count[i] # b) =>
                race.ones[b] = 1 /\ blk[b] = "freed"
          /\ blk[b] = "freed" =>
                /\ race.ones[b] = 1
                /\ \A i \in Inst : _ref_count[i] = b => destroyed[_ptr[i]] = 1
    /\ \A t \in Threads :
          /\ pc[t] = "del_obj" => destroyed[_ptr[op[t].self]] = 0
          /\ pc[t] = "del_blk" => destroyed[_ptr[op[t].self]] = 1
    /\ \A p \in Obj : destroyed[p] <= 1
    /\ uaf = {}

\* Two destructors of different threads overlap on one control block: one
\* has decremented the counter and not returned yet, the other one has
\* observed the value 1 and is about to destroy the object.
C13_Witness ==
    \E t, u \in Threads :
        /\ pc[t] = "post" /\ op[t].kind = "dtor"
        /\ pc[u] = "del_obj" /\ op[u].kind = "dtor"
        /\ _ref_count[op[t].self] = _ref_count[op[u].self]

\* Thread t is inside reset on the shared instance and has applied the
\* fetch_sub of release() to the control block that the instance still
\* references.
ReleasedShared(t) ==
    /\ op[t].kind = "reset" /\ op[t].self = Shared
    /\ pc[t] \in {"del_obj", "del_blk", "post", "new_cnt", "store_cnt"}
    /\ op[t].rel # 0 /\ op[t].rel = _ref_count[Shared]

\* C14: unsynchronised resets of one instance that overlap all release the
\* one reference the instance holds: with n >= 2 of them past the fetch_sub
\* the counter is n - 1 below the number of references that exist (with two
\* resets: 0 while the co-owner is alive, SIZE_MAX when there is none), or a
\* fetch_sub has hit a counter that is already deleted.  This is said of
\* resets called after the latest allocation of a counter: a later
\* allocation may have put a new counter where the released one was.
C14_SameInstanceRace ==
    LET b == _ref_count[Shared]
        R == {t \in Threads : ReleasedShared(t)}
    IN  (Cardinality(R) >= 2 /\ \A t \in R : op[t].nBlk = NumBlocks) =>
            \/ "counter" \in uaf
            \/ count[b] = Cardinality(Holders(b) \ {Shared}) + 1 - Cardinality(R)

\* Two resets have both released the shared instance's reference, and the
\* one that observed 1 has destroyed the object that the co-owner, which
\* nobody touched, still references.
C14_Witness ==
    \E t, u \in Threads :
        /\ t # u /\ ReleasedShared(t) /\ ReleasedShared(u)
        /\ op[t].nBlk = NumBlocks /\ op[u].nBlk = NumBlocks
        /\ pc[u] = "del_blk"
        /\ live[CoOwner] /\ ~Busy(CoOwner)
        /\ _ref_count[CoOwner] = _ref_count[Shared]
        /\ destroyed[_ptr[CoOwner]] = 1

\* The number of steps an operation at position l has left at most.
Rank(l) ==
    CASE l = "idle" -> 0
      [] l \in {"inc", "null_src", "store_cnt"} -> 1
      [] l = "new_cnt" -> 2
      [] l = "post" -> 3
      [] l = "del_blk" -> 4
      [] l = "del_obj" -> 5
      [] l = "dec" -> 6

\* C15: whatever operation a thread is in (copy, move, assignment, reset,
\* destructor), its next step can be taken at once, wherever the other
\* threads are; an operation that thread 1 has started returns, however the
\* other threads are scheduled or stalled; every step inside an operation
\* brings it closer to its end (at most six steps after the call), and no
\* step moves or resets another thread's operation.
C15_LockFree ==
    /\ ~Idle(1) ~> Idle(1)
    /\ [](\A t \in Threads : ~Idle(t) => ENABLED <<Continue(t)>>_vars)
    /\ [][\A t \in Threads :
             (~Idle(t) /\ pc'[t] # pc[t]) => Rank(pc'[t]) < Rank(pc[t])]_vars
    /\ [][Cardinality({t \in Threads : pc'[t] # pc[t]}) <= 1]_vars

\* Thread 1 is in the middle of a reset, before the allocation of the new
\* counter, while another thread is stopped in the middle of a move
\* assignment to a co-owner of the control block that the reset released,
\* after its fetch_sub.
C15_Witness ==
    /\ pc[1] = "new_cnt" /\ op[1].kind = "reset"
    /\ \E u \in Threads \ {1} :
          /\ pc[u] = "post" /\ op[u].kind = "move_assign"
          /\ _ref_count[op[u].self] # 0
          /\ _ref_count[op[u].self] = _ref_count[op[1].self]

\* C16: when the thread whose fetch_sub returned 1 destroys the object,
\* every access that any thread made to the object through an instance it
\* owned happens-before the destruction.
C16_DestructionOrdered ==
    \A t \in Threads : pc[t] = "del_obj" => race.eff \subseteq race.know[t]

\* A thread is about to destroy the object that another thread accessed
\* before giving up its own references.
C16_Witness ==
    \E t, u \in Threads :
        /\ t # u
        /\ pc[t] = "del_obj"
        /\ u \in race.eff /\ u \in race.know[t]

\* The call r assigns to a destination that references a control block of
\* its own from a source that references another one or none.
OverOtherBlock(r) ==
    /\ r.kind \in {"copy_assign", "move_assign"}
    /\ r.self # r.other
    /\ r.sRc # 0 /\ r.sRc # r.oRc

\* What a release of one reference to the control block r.sRc, which had
\* r.sCnt owners, leaves behind.
ReleasedOnce(r) ==
    IF r.sCnt = 1
    THEN destroyed[r.sPtr] = 1 /\ blk[r.sRc] = "freed"
    ELSE /\ destroyed[r.sPtr] = 0 /\ blk[r.sRc] = "alloc"
         /\ count[r.sRc] = r.sCnt - 1

\* C17: an assignment from another instance to a destination that
\* references a different control block B takes exactly one off B's counter
\* before the source's pair is stored; B's object is destroyed in the
\* operation exactly if the destination was the sole owner; otherwise the
\* other owners keep their object, with a count of one less.
C17_ReleaseFirst ==
    /\ \A t \in Threads :
          /\ (pc[t] = "dec" /\ OverOtherBlock(op[t])) =>
                /\ count[op[t].sRc] = op[t].sCnt
                /\ destroyed[op[t].sPtr] = 0 /\ blk[op[t].sRc] = "alloc"
          /\ (pc[t] = "post" /\ OverOtherBlock(op[t])) =>
                /\ _ptr[op[t].self] = op[t].sPtr
                /\ _ref_count[op[t].self] = op[t].sRc
                /\ ReleasedOnce(op[t])
    /\ OverOtherBlock(last) =>
          /\ ReleasedOnce(last)
          /\ _ref_count[last.self] = last.oRc
          /\ \A i \in Inst :
                (live[i] /\ _ref_count[i] = last.sRc) =>
                    /\ last.sCnt > 1
                    /\ get(i) = last.sPtr
                    /\ use_count(i) = {last.sCnt - 1}
          /\ last.sCnt > 1 => \E i \in Inst : live[i] /\ _ref_count[i] = last.sRc
    /\ uaf = {}

\* A destination that shared its object with one other instance was
\* move-assigned the owner of a second object.
C17_Witness ==
    /\ last.kind = "move_assign" /\ OverOtherBlock(last)
    /\ last.sCnt = 2 /\ last.oRc # 0
    /\ count[last.sRc] = 1 /\ destroyed[last.sPtr] = 0

\* The call r destroys, resets to null or assigns over a null instance.
NullDest(r) ==
    /\ r.kind \in {"dtor", "reset", "copy_assign", "move_assign"}
    /\ r.sRc = 0 /\ r.sPtr = 0
    /\ r.kind = "reset" => r.p = 0

\* The step is one of such a call by thread t.
NullDestStep(t) == NullDest(op[t]) \/ NullDest(op'[t])

\* C18 as stated: no step of an operation that destroys, resets to null or
\* assigns over a null instance changes a counter, destroys an object or
\* frees a control block.
C18_Original ==
    [][/\ \A t \in Threads :
             NullDestStep(t) => UNCHANGED <<count, blk, destroyed, uaf>>
       /\ NullDest(last') => UNCHANGED <<blk, destroyed, uaf>>]_vars

\* C18 as amended: such an operation destroys no object, frees no control
\* block and touches no freed memory; it changes no counter either, except
\* that a copy assignment from a non-null source adds one to the source's
\* counter in its last step, as every copy does.  Destroying or resetting
\* a null instance leaves every other instance as it is.
C18_NullRelease ==
    [][/\ \A t \in Threads :
             NullDestStep(t) =>
                 /\ UNCHANGED <<blk, destroyed, uaf>>
                 /\ IF pc[t] = "inc" /\ op[t].oRc # 0
                    THEN count' = [count EXCEPT ![op[t].oRc] = @ + 1]
                    ELSE UNCHANGED count
                 /\ (op[t].kind \in {"dtor", "reset"} \/ op'[t].kind \in {"dtor", "reset"}) =>
                       \A i \in Inst :
                           (i # op[t].self /\ i # op'[t].self) =>
                               /\ _ptr'[i] = _ptr[i]
                               /\ _ref_count'[i] = _ref_count[i]
                               /\ live'[i] = live[i]
       /\ NullDest(last') => UNCHANGED <<blk, destroyed, uaf>>]_vars

\* A null instance was destroyed while another instance is the sole owner
\* of an object, as after b = move(a) followed by the destruction of a.
C18_Witness ==
    /\ last.kind = "dtor" /\ NullDest(last)
    /\ ~live[last.self]
    /\ \E i \in Inst : live[i] /\ use_count(i) = {1} /\ destroyed[get(i)] = 0

\* No fetch_add is applied to a counter that is 0 or deleted: a thread that
\* is about to increment has a counter of at least 1 before it.
IncrementsLiveCounter ==
    /\ \A t \in Threads :
          (pc[t] = "inc" /\ _ref_count[op[t].self] # 0) =>
              /\ blk[_ref_count[op[t].self]] = "alloc"
              /\ count[_ref_count[op[t].self]] >= 1
    /\ "counter" \notin uaf

\* C19 as stated: in every state the counter of a control block that is
\* not freed is at least 1, and no fetch_add is applied to a counter that
\* is 0 or freed.
C19_Original ==
    /\ \A b \in Blk : blk[b] = "alloc" => count[b] >= 1
    /\ IncrementsLiveCounter

\* C19 as amended: the counter of a control block that is not freed is at
\* least 1, except between the fetch_sub that returned 1 and the delete of
\* the counter, when it is 0, no instance references the control block and
\* the thread that observed 1 is destroying it; and no fetch_add is applied
\* to a counter that is 0 or freed.
C19_NoResurrection ==
    /\ \A b \in Blk :
          blk[b] = "alloc" =>
              \/ count[b] >= 1
              \/ count[b] = 0 /\ Destroyers(b) # {} /\ Holders(b) = {}
    /\ IncrementsLiveCounter

\* One thread is about to increment the counter of a control block with one
\* owner while another thread, having taken a different counter to 0, has
\* not deleted it yet.
C19_Witness ==
    \E t, u \in Threads :
        /\ pc[t] = "inc" /\ _ref_count[op[t].self] # 0
        /\ count[_ref_count[op[t].self]] = 1
        /\ pc[u] \in {"del_obj", "del_blk"}
        /\ count[_ref_count[op[u].self]] = 0

\* The call r is b = a for two different instances that reference the same
\* control block.
CoOwnerAssign(r) ==
    /\ r.kind = "copy_assign" /\ r.self # r.other
    /\ r.sRc # 0 /\ r.sRc = r.oRc

\* C20: b = a between two co-owners of a control block with counter n takes
\* the counter to n - 1 and back to n, never to 0, and neither destroys the
\* object nor frees the control block.
C20_CoOwnerAssign ==
    /\ \A t \in Threads :
          CoOwnerAssign(op[t]) =>
              /\ op[t].sCnt >= 2
              /\ pc[t] \in {"dec", "post", "inc"}
              /\ count[op[t].sRc] =
                    IF pc[t] = "dec" THEN op[t].sCnt ELSE op[t].sCnt - 1
              /\ count[op[t].sRc] >= 1
              /\ blk[op[t].sRc] = "alloc" /\ destroyed[op[t].sPtr] = 0
    /\ CoOwnerAssign(last) =>
          /\ count[last.sRc] = last.sCnt
          /\ use_count(last.self) = {last.sCnt}
          /\ use_count(last.other) = {last.sCnt}
          /\ get(last.self) = last.sPtr /\ get(last.other) = last.sPtr
          /\ blk[last.sRc] = "alloc" /\ destroyed[last.sPtr] = 0
    /\ uaf = {}

\* b = a has completed for the only two owners of an object.
C20_Witness ==
    /\ CoOwnerAssign(last) /\ last.sCnt = 2
    /\ use_count(last.self) = {2} /\ destroyed[last.sPtr] = 0

====
